---------------------------- MODULE Spec2Model ----------------------------
(***************************************************************************)
(* The CRUD services of the repository, as one state machine:              *)
(*   docproject/main.py            the in-memory todo store (a dict)       *)
(*   tasks-test/main.py            the relational todo and recipe tables   *)
(*   Cloud-Native-FastAPI/main.py  the stateless todo stubs                *)
(* A behaviour exercises one collection of one service (the variable       *)
(* service, chosen by Init): no handler of the repository reads or writes  *)
(* more than one collection.  The variable last is the request just        *)
(* handled together with the response the handler gave.                    *)
(***************************************************************************)
EXTENDS Integers, Sequences, FiniteSets, TLC

VARIABLES service,        \* which collection the behaviour exercises
          todos,          \* docproject: the module-level dict todos
          todo_table,     \* tasks-test: the rows of table todo, by primary key
          recipe_table,   \* tasks-test: the rows of table recipe, by primary key
          last,           \* the request just handled and its response
          pc, req, resp   \* docproject under concurrent requests (SpecConc)

vars == <<service, todos, todo_table, recipe_table, last, pc, req, resp>>

-----------------------------------------------------------------------------
(* Bounds *)

\* docproject: ids a request may carry are 0..MaxItemId
MaxItemId == 2
\* tasks-test: a table holds primary keys 1..MaxRowId
MaxRowId == 2
\* docproject, concurrent: the number of requests in flight
NumThreads == 2
\* docproject, concurrent: ids a request may carry are 0..MaxConcId
MaxConcId == 3

-----------------------------------------------------------------------------
(* Optional values: None is <<>>, a present value v is <<v>> *)

None == <<>>
Some(v) == <<v>>

\* a field of a partial payload: never sent, or sent with a value (null = None)
Unset == <<>>
Sent(v) == <<v>>

Services == {"docproject", "todos", "recipes", "cloud"}

NoRequest == [op |-> "none"]

-----------------------------------------------------------------------------
(* docproject/main.py *)

ItemIds == 0..MaxItemId
\* titles a request body may carry (the initial records keep their own)
Titles == {"Test FastAPI"}
TimeEstimates == {None, Some(30)}

\* class TodoItem: a request body; an omitted time_estimate is None
TodoItem == [id : ItemIds, title : Titles, time_estimate : TimeEstimates]

\* TodoItemResponse(**todo.model_dump(), completed=c)
TodoItemResponse(todo, c) ==
    [id |-> todo.id, title |-> todo.title,
     time_estimate |-> todo.time_estimate, completed |-> c]

\* the dict todos as the module builds it
InitialTodos ==
    [k \in {1, 2} |->
        [id |-> k,
         title |-> IF k = 1 THEN "Learn Docker" ELSE "Build a Docker Image",
         time_estimate |-> None, completed |-> FALSE]]

\* todos[k] = r
DictSet(d, k, r) == [x \in (DOMAIN d) \cup {k} |-> IF x = k THEN r ELSE d[x]]
\* del todos[k]
DictDel(d, k) == [x \in (DOMAIN d) \ {k} |-> d[x]]

HTTPException(op, args, code, detail) ==
    [op |-> op, args |-> args, status |-> code, body |-> [detail |-> detail]]
Response(op, args, code, body) ==
    [op |-> op, args |-> args, status |-> code, body |-> body]

\* GET /todo: list(todos.values()), one entry per key (the order is not modelled)
doc_todo ==
    /\ service = "docproject"
    /\ last' = Response("todo", <<>>, 200, [k \in DOMAIN todos |-> todos[k]])
    /\ UNCHANGED <<service, todos, todo_table, recipe_table, pc, req, resp>>

\* POST /todo
doc_add_todo(todo) ==
    /\ service = "docproject"
    /\ IF todo.id = 0
       THEN /\ last' = HTTPException("add_todo", [todo |-> todo], 400, "ID 0 is not allowed")
            /\ UNCHANGED todos
       ELSE IF todo.id \in DOMAIN todos
       THEN /\ last' = HTTPException("add_todo", [todo |-> todo], 400, "already exists")
            /\ UNCHANGED todos
       ELSE /\ todos' = DictSet(todos, todo.id, TodoItemResponse(todo, FALSE))
            /\ last' = Response("add_todo", [todo |-> todo], 200, TodoItemResponse(todo, FALSE))
    /\ UNCHANGED <<service, todo_table, recipe_table, pc, req, resp>>

\* DELETE /todo/{item_id}
doc_delete_todo(item_id) ==
    /\ service = "docproject"
    /\ IF item_id \notin DOMAIN todos
       THEN /\ last' = HTTPException("delete_todo", [item_id |-> item_id], 404, "not found")
            /\ UNCHANGED todos
       ELSE /\ todos' = DictDel(todos, item_id)
            /\ last' = Response("delete_todo", [item_id |-> item_id], 200, [message |-> "deleted"])
    /\ UNCHANGED <<service, todo_table, recipe_table, pc, req, resp>>

\* PUT /todo/{item_id}
doc_update_todo(item_id, todo) ==
    /\ service = "docproject"
    /\ IF item_id \notin DOMAIN todos
       THEN /\ last' = HTTPException("update_todo", [item_id |-> item_id, todo |-> todo], 404, "not found")
            /\ UNCHANGED todos
       ELSE LET existing == todos[item_id]
                todo_response == TodoItemResponse(todo, existing.completed)
            IN /\ todos' = DictSet(todos, item_id, todo_response)
               /\ last' = Response("update_todo", [item_id |-> item_id, todo |-> todo], 200, todo_response)
    /\ UNCHANGED <<service, todo_table, recipe_table, pc, req, resp>>

\* a handler that flips the flag instead of setting it
set_completed_flip(d, item_id) ==
    [d EXCEPT ![item_id].completed = ~d[item_id].completed]

\* todos[item_id].completed = True
set_completed(d, item_id) == [d EXCEPT ![item_id].completed = TRUE]

\* PATCH /todo/{item_id}/complete
doc_complete_todo(item_id) ==
    /\ service = "docproject"
    /\ IF item_id \notin DOMAIN todos
       THEN /\ last' = HTTPException("complete_todo", [item_id |-> item_id], 404, "not found")
            /\ UNCHANGED todos
       ELSE /\ todos' = set_completed(todos, item_id)
            /\ last' = Response("complete_todo", [item_id |-> item_id], 200, todos'[item_id])
    /\ UNCHANGED <<service, todo_table, recipe_table, pc, req, resp>>

-----------------------------------------------------------------------------
(* tasks-test/main.py: the todo table *)

RowIds == 1..MaxRowId

\* text is a sequence of characters, so that LIKE can be computed
Tasks == {<<"a">>, <<"A", "b">>}
Searches == {None, Some(<<>>), Some(<<"a">>), Some(<<"b">>)}

\* class TodoCreate: task is required, completed may be omitted
TodoCreate == [task : Tasks, completed : {Unset, Sent(TRUE), Sent(FALSE)}]

\* class TodoUpdate: every field may be omitted, sent as null, or sent with a value
TodoUpdate ==
    [task : {Unset, Sent(None)} \cup {Sent(Some(t)) : t \in Tasks},
     completed : {Unset, Sent(None), Sent(Some(TRUE)), Sent(Some(FALSE))}]

\* the primary key the store gives a row inserted with id = None: an integer
\* primary key without AUTOINCREMENT, one above the largest in use
NextId(table) ==
    IF DOMAIN table = {} THEN 1
    ELSE (CHOOSE m \in DOMAIN table : \A k \in DOMAIN table : k <= m) + 1

\* a validation that drops the submitted completed flag
Todo_model_validate_default(todo) == [task |-> todo.task, completed |-> FALSE]

\* Todo.model_validate(todo): id is None until the row is inserted
Todo_model_validate(todo) ==
    [task |-> todo.task,
     completed |-> IF todo.completed = Unset THEN FALSE ELSE todo.completed[1]]

\* session.add(obj); session.commit(); session.refresh(obj): the inserted row
Insert(table, obj) ==
    [x \in (DOMAIN table) \cup {NextId(table)} |->
        IF x = NextId(table)
        THEN [f \in (DOMAIN obj) \cup {"id"} |-> IF f = "id" THEN NextId(table) ELSE obj[f]]
        ELSE table[x]]

\* session.get(Model, id): the row, or None
session_get(table, id) == IF id \in DOMAIN table THEN Some(table[id]) ELSE None

\* a delete that is never committed
session_delete_uncommitted(table, id) == table

\* session.delete(row); session.commit()
session_delete(table, id) == [x \in (DOMAIN table) \ {id} |-> table[x]]

\* model_dump(exclude_unset=True): the names of the fields the request sent
update_data(update) == {f \in DOMAIN update : update[f] # Unset}

\* an update that rebuilds the row from the payload: a field not sent falls
\* back to its declared default (completed = False)
setattrs_rebuild(row, update) ==
    [f \in DOMAIN row |->
        IF f \in update_data(update) THEN update[f][1]
        ELSE IF f = "completed" THEN Some(FALSE) ELSE Some(row[f])]

\* for key, value in update_data.items(): setattr(row, key, value)
\* the object after the loop, every attribute an optional value
setattrs(row, update) ==
    [f \in DOMAIN row |->
        IF f \in update_data(update) THEN update[f][1] ELSE Some(row[f])]

\* session.commit() of an updated object: every column of both tables is NOT NULL
IntegrityError(obj) == \E f \in DOMAIN obj : obj[f] = None

\* the row the commit writes
Committed(obj) == [f \in DOMAIN obj |-> obj[f][1]]

\* ASCII case folding of LIKE
Fold(c) == IF c = "A" THEN "a" ELSE IF c = "B" THEN "b" ELSE c

\* Todo.task.contains(search): task LIKE '%' || search || '%'
contains(task, search) ==
    \E i \in 0..(Len(task) - Len(search)) :
        \A j \in 1..Len(search) : Fold(task[i + j]) = Fold(search[j])

\* POST /todos
create_todo(todo) ==
    /\ service = "todos"
    /\ NextId(todo_table) <= MaxRowId
    /\ LET db_todo == Todo_model_validate(todo)
       IN /\ todo_table' = Insert(todo_table, db_todo)
          /\ last' = Response("create_todo", [todo |-> todo], 201,
                              todo_table'[NextId(todo_table)])
    /\ UNCHANGED <<service, todos, recipe_table, pc, req, resp>>

\* the rows GET /todos selects
select_todos(table, completed, search) ==
    {table[k] : k \in
        {k \in DOMAIN table :
            /\ (completed # None => table[k].completed = completed[1])
            /\ ((search # None /\ search[1] # <<>>) => contains(table[k].task, search[1]))}}

\* GET /todos
get_todos(completed, search) ==
    /\ service = "todos"
    /\ last' = Response("get_todos", [completed |-> completed, search |-> search], 200,
                        select_todos(todo_table, completed, search))
    /\ UNCHANGED <<service, todos, todo_table, recipe_table, pc, req, resp>>

\* what GET /todos/{todo_id} answers
get_todo_response(table, todo_id) ==
    LET todo == session_get(table, todo_id)
    IN IF todo = None
       THEN HTTPException("get_todo", [todo_id |-> todo_id], 404, "Todo not found")
       ELSE Response("get_todo", [todo_id |-> todo_id], 200, todo[1])

\* GET /todos/{todo_id}
get_todo(todo_id) ==
    /\ service = "todos"
    /\ last' = get_todo_response(todo_table, todo_id)
    /\ UNCHANGED <<service, todos, todo_table, recipe_table, pc, req, resp>>

\* PUT /todos/{todo_id}
update_todo(todo_id, todo_update) ==
    /\ service = "todos"
    /\ LET todo == session_get(todo_table, todo_id)
           args == [todo_id |-> todo_id, todo_update |-> todo_update]
       IN IF todo = None
          THEN /\ last' = HTTPException("update_todo", args, 404, "Todo not found")
               /\ UNCHANGED todo_table
          ELSE LET obj == setattrs(todo[1], todo_update)
               IN IF IntegrityError(obj)
                  THEN /\ last' = HTTPException("update_todo", args, 500, "IntegrityError")
                       /\ UNCHANGED todo_table
                  ELSE /\ todo_table' = [todo_table EXCEPT ![todo_id] = Committed(obj)]
                       /\ last' = Response("update_todo", args, 200, todo_table'[todo_id])
    /\ UNCHANGED <<service, todos, recipe_table, pc, req, resp>>

\* DELETE /todos/{todo_id}
delete_todo(todo_id) ==
    /\ service = "todos"
    /\ LET todo == session_get(todo_table, todo_id)
       IN IF todo = None
          THEN /\ last' = HTTPException("delete_todo", [todo_id |-> todo_id], 404, "Todo not found")
               /\ UNCHANGED todo_table
          ELSE /\ todo_table' = session_delete(todo_table, todo_id)
               /\ last' = Response("delete_todo", [todo_id |-> todo_id], 204, None)
    /\ UNCHANGED <<service, todos, recipe_table, pc, req, resp>>

-----------------------------------------------------------------------------
(* tasks-test/main.py: the recipe table *)

Cuisines == {"", "Italian"}
Difficulties == {"", "easy"}

\* class RecipeCreate: every field is required
RecipeCreate ==
    [title : {"Pasta"}, cuisine : Cuisines, difficulty : Difficulties,
     prep_time : {10}, ingredients : {"eggs"}]

\* class RecipeUpdate: every field may be omitted, sent as null, or sent with a
\* value; the payloads enumerated send any subset of the fields, and null for
\* cuisine
RecipeUpdate ==
    [title : {Unset, Sent(Some("Pasta"))},
     cuisine : {Unset, Sent(None), Sent(Some("Italian"))},
     difficulty : {Unset, Sent(Some("easy"))},
     prep_time : {Unset, Sent(Some(10))},
     ingredients : {Unset, Sent(Some("eggs"))}]

\* the query parameters of GET /recipes: not given, or a string
CuisineFilters == {None} \cup {Some(c) : c \in Cuisines}
DifficultyFilters == {None} \cup {Some(d) : d \in Difficulties}

\* `if value:` of an optional string: given and not empty
Truthy(value) == value # None /\ value[1] # ""

\* POST /recipes
create_recipe(recipe) ==
    /\ service = "recipes"
    /\ NextId(recipe_table) <= MaxRowId
    /\ recipe_table' = Insert(recipe_table, recipe)
    /\ last' = Response("create_recipe", [recipe |-> recipe], 201,
                        recipe_table'[NextId(recipe_table)])
    /\ UNCHANGED <<service, todos, todo_table, pc, req, resp>>

\* the rows GET /recipes selects
select_recipes(table, cuisine, difficulty) ==
    {table[k] : k \in
        {k \in DOMAIN table :
            /\ (Truthy(cuisine) => table[k].cuisine = cuisine[1])
            /\ (Truthy(difficulty) => table[k].difficulty = difficulty[1])}}

\* GET /recipes
list_recipes(cuisine, difficulty) ==
    /\ service = "recipes"
    /\ last' = Response("list_recipes", [cuisine |-> cuisine, difficulty |-> difficulty], 200,
                        select_recipes(recipe_table, cuisine, difficulty))
    /\ UNCHANGED <<service, todos, todo_table, recipe_table, pc, req, resp>>

\* what GET /recipes/{recipe_id} answers
get_recipe_response(table, recipe_id) ==
    LET recipe == session_get(table, recipe_id)
    IN IF recipe = None
       THEN HTTPException("get_recipe", [recipe_id |-> recipe_id], 404, "Recipe not found")
       ELSE Response("get_recipe", [recipe_id |-> recipe_id], 200, recipe[1])

\* GET /recipes/{recipe_id}
get_recipe(recipe_id) ==
    /\ service = "recipes"
    /\ last' = get_recipe_response(recipe_table, recipe_id)
    /\ UNCHANGED <<service, todos, todo_table, recipe_table, pc, req, resp>>

\* PUT /recipes/{recipe_id}
update_recipe(recipe_id, recipe_update) ==
    /\ service = "recipes"
    /\ LET recipe == session_get(recipe_table, recipe_id)
           args == [recipe_id |-> recipe_id, recipe_update |-> recipe_update]
       IN IF recipe = None
          THEN /\ last' = HTTPException("update_recipe", args, 404, "Recipe not found")
               /\ UNCHANGED recipe_table
          ELSE LET obj == setattrs(recipe[1], recipe_update)
               IN IF IntegrityError(obj)
                  THEN /\ last' = HTTPException("update_recipe", args, 500, "IntegrityError")
                       /\ UNCHANGED recipe_table
                  ELSE /\ recipe_table' = [recipe_table EXCEPT ![recipe_id] = Committed(obj)]
                       /\ last' = Response("update_recipe", args, 200, recipe_table'[recipe_id])
    /\ UNCHANGED <<service, todos, todo_table, pc, req, resp>>

\* DELETE /recipes/{recipe_id}
delete_recipe(recipe_id) ==
    /\ service = "recipes"
    /\ LET recipe == session_get(recipe_table, recipe_id)
       IN IF recipe = None
          THEN /\ last' = HTTPException("delete_recipe", [recipe_id |-> recipe_id], 404, "Recipe not found")
               /\ UNCHANGED recipe_table
          ELSE /\ recipe_table' = session_delete(recipe_table, recipe_id)
               /\ last' = Response("delete_recipe", [recipe_id |-> recipe_id], 204, None)
    /\ UNCHANGED <<service, todos, todo_table, pc, req, resp>>

-----------------------------------------------------------------------------
(* Cloud-Native-FastAPI/main.py: no handler keeps or reads any state *)

\* the list GET /todo builds on every call
my_todo_list ==
    <<[id |-> 1, title |-> "Learn Docker", time_estimate |-> None, completed |-> FALSE],
      [id |-> 2, title |-> "Build a Docker Image", time_estimate |-> None, completed |-> FALSE]>>

\* GET /todo
cn_todo ==
    /\ service = "cloud"
    /\ last' = Response("todo", <<>>, 200, my_todo_list)
    /\ UNCHANGED <<service, todos, todo_table, recipe_table, pc, req, resp>>

\* POST /todo
cn_add_todo(todo) ==
    /\ service = "cloud"
    /\ IF todo.id = 0
       THEN last' = HTTPException("add_todo", [todo |-> todo], 400, "ID 0 is not allowed")
       ELSE last' = Response("add_todo", [todo |-> todo], 200, TodoItemResponse(todo, FALSE))
    /\ UNCHANGED <<service, todos, todo_table, recipe_table, pc, req, resp>>

\* DELETE /todo/{item_id}
cn_delete_todo(item_id) ==
    /\ service = "cloud"
    /\ last' = Response("delete_todo", [item_id |-> item_id], 200, [message |-> "deleted"])
    /\ UNCHANGED <<service, todos, todo_table, recipe_table, pc, req, resp>>

\* PUT /todo/{item_id}
cn_update_todo(item_id, todo) ==
    /\ service = "cloud"
    /\ last' = Response("update_todo", [item_id |-> item_id, todo |-> todo], 200,
                        TodoItemResponse(todo, FALSE))
    /\ UNCHANGED <<service, todos, todo_table, recipe_table, pc, req, resp>>

\* PATCH /todo/{item_id}/complete
cn_complete_todo(item_id) ==
    /\ service = "cloud"
    /\ last' = Response("complete_todo", [item_id |-> item_id], 200,
                        [id |-> item_id, title |-> "Sample Task",
                         time_estimate |-> None, completed |-> TRUE])
    /\ UNCHANGED <<service, todos, todo_table, recipe_table, pc, req, resp>>

-----------------------------------------------------------------------------
(* docproject/main.py under concurrent requests.  The handlers are plain   *)
(* functions, which the framework runs on worker threads; nothing in the   *)
(* module locks the dict, so a thread may be descheduled between the       *)
(* membership test of a handler and its write.                             *)

Threads == 1..NumThreads
ConcIds == 0..MaxConcId
ConcTodoItem == [id : ConcIds, title : Titles, time_estimate : TimeEstimates]

\* add_todo up to and including `if todo.id in todos`
conc_add_check(t, todo) ==
    /\ service = "docproject"
    /\ pc[t] = "idle"
    /\ req' = [req EXCEPT ![t] = [op |-> "add_todo", todo |-> todo]]
    /\ IF todo.id = 0 \/ todo.id \in DOMAIN todos
       THEN /\ pc' = [pc EXCEPT ![t] = "done"]
            /\ resp' = [resp EXCEPT ![t] = [status |-> 400]]
       ELSE /\ pc' = [pc EXCEPT ![t] = "add_insert"]
            /\ UNCHANGED resp
    /\ UNCHANGED <<service, todos, todo_table, recipe_table, last>>

\* add_todo from `todos[todo.id] = todo_response` to its return
conc_add_insert(t) ==
    /\ service = "docproject"
    /\ pc[t] = "add_insert"
    /\ todos' = DictSet(todos, req[t].todo.id, TodoItemResponse(req[t].todo, FALSE))
    /\ pc' = [pc EXCEPT ![t] = "done"]
    /\ resp' = [resp EXCEPT ![t] = [status |-> 200]]
    /\ UNCHANGED <<service, todo_table, recipe_table, last, req>>

\* delete_todo up to and including `if item_id not in todos`
conc_delete_check(t, item_id) ==
    /\ service = "docproject"
    /\ pc[t] = "idle"
    /\ req' = [req EXCEPT ![t] = [op |-> "delete_todo", item_id |-> item_id]]
    /\ IF item_id \notin DOMAIN todos
       THEN /\ pc' = [pc EXCEPT ![t] = "done"]
            /\ resp' = [resp EXCEPT ![t] = [status |-> 404]]
       ELSE /\ pc' = [pc EXCEPT ![t] = "delete_del"]
            /\ UNCHANGED resp
    /\ UNCHANGED <<service, todos, todo_table, recipe_table, last>>

\* delete_todo from `del todos[item_id]` to its return; del of a missing key
\* raises KeyError, which no handler catches: the framework answers 500
conc_delete_del(t) ==
    /\ service = "docproject"
    /\ pc[t] = "delete_del"
    /\ IF req[t].item_id \in DOMAIN todos
       THEN /\ todos' = DictDel(todos, req[t].item_id)
            /\ resp' = [resp EXCEPT ![t] = [status |-> 200]]
       ELSE /\ UNCHANGED todos
            /\ resp' = [resp EXCEPT ![t] = [status |-> 500]]
    /\ pc' = [pc EXCEPT ![t] = "done"]
    /\ UNCHANGED <<service, todo_table, recipe_table, last, req>>

-----------------------------------------------------------------------------
Init ==
    /\ service \in Services
    /\ todos = InitialTodos
    /\ todo_table = <<>>
    /\ recipe_table = <<>>
    /\ last = NoRequest
    /\ pc = [t \in 1..NumThreads |-> "idle"]
    /\ req = [t \in 1..NumThreads |-> NoRequest]
    /\ resp = [t \in 1..NumThreads |-> NoRequest]

NextDoc ==
    \/ doc_todo
    \/ \E todo \in TodoItem : doc_add_todo(todo)
    \/ \E item_id \in ItemIds : doc_delete_todo(item_id)
    \/ \E item_id \in ItemIds, todo \in TodoItem : doc_update_todo(item_id, todo)
    \/ \E item_id \in ItemIds : doc_complete_todo(item_id)

NextRel ==
    \/ \E todo \in TodoCreate : create_todo(todo)
    \/ \E completed \in {None, Some(TRUE), Some(FALSE)}, search \in Searches :
          get_todos(completed, search)
    \/ \E todo_id \in RowIds : get_todo(todo_id)
    \/ \E todo_id \in RowIds, todo_update \in TodoUpdate : update_todo(todo_id, todo_update)
    \/ \E todo_id \in RowIds : delete_todo(todo_id)
    \/ \E recipe \in RecipeCreate : create_recipe(recipe)
    \/ \E cuisine \in CuisineFilters, difficulty \in DifficultyFilters :
          list_recipes(cuisine, difficulty)
    \/ \E recipe_id \in RowIds : get_recipe(recipe_id)
    \/ \E recipe_id \in RowIds, recipe_update \in RecipeUpdate :
          update_recipe(recipe_id, recipe_update)
    \/ \E recipe_id \in RowIds : delete_recipe(recipe_id)

NextCloud ==
    \/ cn_todo
    \/ \E todo \in TodoItem : cn_add_todo(todo)
    \/ \E item_id \in ItemIds : cn_delete_todo(item_id)
    \/ \E item_id \in ItemIds, todo \in TodoItem : cn_update_todo(item_id, todo)
    \/ \E item_id \in ItemIds : cn_complete_todo(item_id)

Next == NextDoc \/ NextRel \/ NextCloud

\* every service, one request at a time
Spec == Init /\ [][Next]_vars

\* docproject alone
InitDoc == Init /\ service = "docproject"
SpecDoc == InitDoc /\ [][NextDoc]_vars

\* tasks-test alone (either table)
InitRel == Init /\ service \in {"todos", "recipes"}
SpecRel == InitRel /\ [][NextRel]_vars

\* docproject, NumThreads requests in flight at once
NextConc ==
    \/ \E t \in Threads, todo \in ConcTodoItem : conc_add_check(t, todo)
    \/ \E t \in Threads : conc_add_insert(t)
    \/ \E t \in Threads, item_id \in ConcIds : conc_delete_check(t, item_id)
    \/ \E t \in Threads : conc_delete_del(t)

SpecConc == InitDoc /\ [][NextConc]_vars

-----------------------------------------------------------------------------
(* Properties *)

\* C1: tasks-test, update_todo and update_recipe on an existing id: every
\* field the payload does not carry keeps its value, the id is unchanged, no
\* other row changes, and an empty payload leaves the row as it was.
C1_UpdateFrame ==
    [][/\ (service = "todos" /\ last'.op = "update_todo"
             /\ last'.args.todo_id \in DOMAIN todo_table) =>
            LET id == last'.args.todo_id
                u == last'.args.todo_update
            IN /\ DOMAIN todo_table' = DOMAIN todo_table
               /\ \A k \in DOMAIN todo_table \ {id} : todo_table'[k] = todo_table[k]
               /\ todo_table'[id].id = id
               /\ \A f \in DOMAIN u :
                     u[f] = Unset => todo_table'[id][f] = todo_table[id][f]
               /\ update_data(u) = {} =>
                     /\ todo_table' = todo_table
                     /\ last'.status = 200
                     /\ last'.body = todo_table[id]
       /\ (service = "recipes" /\ last'.op = "update_recipe"
             /\ last'.args.recipe_id \in DOMAIN recipe_table) =>
            LET id == last'.args.recipe_id
                u == last'.args.recipe_update
            IN /\ DOMAIN recipe_table' = DOMAIN recipe_table
               /\ \A k \in DOMAIN recipe_table \ {id} : recipe_table'[k] = recipe_table[k]
               /\ recipe_table'[id].id = id
               /\ \A f \in DOMAIN u :
                     u[f] = Unset => recipe_table'[id][f] = recipe_table[id][f]
               /\ update_data(u) = {} =>
                     /\ recipe_table' = recipe_table
                     /\ last'.status = 200
                     /\ last'.body = recipe_table[id]
      ]_vars

\* an update that sent completed alone has been applied to a row whose task
\* and completed flag are not the defaults, beside another row
C1_Witness ==
    /\ service = "todos"
    /\ last.op = "update_todo"
    /\ last.status = 200
    /\ last.args.todo_update.task = Unset
    /\ last.args.todo_update.completed = Sent(Some(TRUE))
    /\ last.body.task = <<"A", "b">>
    /\ Cardinality(DOMAIN todo_table) = 2

\* C2: docproject, no two records the list operation returns have the same id.
C2_UniqueIds ==
    (service = "docproject" /\ last.op = "todo") =>
        \A k1, k2 \in DOMAIN last.body :
            last.body[k1].id = last.body[k2].id => k1 = k2

\* C3: tasks-test, right after a successful delete of an id, a get of that id
\* answers 404 and the list result holds no row with that id.
C3_DeleteThenGet ==
    /\ (service = "todos" /\ last.op = "delete_todo" /\ last.status = 204) =>
          /\ get_todo_response(todo_table, last.args.todo_id).status = 404
          /\ \A r \in select_todos(todo_table, None, None) : r.id # last.args.todo_id
    /\ (service = "recipes" /\ last.op = "delete_recipe" /\ last.status = 204) =>
          /\ get_recipe_response(recipe_table, last.args.recipe_id).status = 404
          /\ \A r \in select_recipes(recipe_table, None, None) : r.id # last.args.recipe_id

\* a row has been deleted and another row is still stored
C3_Witness ==
    /\ service = "todos"
    /\ last.op = "delete_todo"
    /\ last.status = 204
    /\ DOMAIN todo_table # {}

\* C4: in every service, a delete of an id that names no record answers 404
\* and leaves the records as they were.
C4_DeleteMissing ==
    [][/\ (service = "docproject" /\ last'.op = "delete_todo"
             /\ last'.args.item_id \notin DOMAIN todos) =>
            (last'.status = 404 /\ todos' = todos)
       /\ (service = "todos" /\ last'.op = "delete_todo"
             /\ last'.args.todo_id \notin DOMAIN todo_table) =>
            (last'.status = 404 /\ todo_table' = todo_table)
       /\ (service = "recipes" /\ last'.op = "delete_recipe"
             /\ last'.args.recipe_id \notin DOMAIN recipe_table) =>
            (last'.status = 404 /\ recipe_table' = recipe_table)
       /\ (service = "cloud" /\ last'.op = "delete_todo"
             /\ \A n \in DOMAIN my_todo_list : my_todo_list[n].id # last'.args.item_id) =>
            last'.status = 404
      ]_vars

\* C5: docproject, add_todo answers 400 and changes nothing when the payload
\* id is 0 or is the id of a stored record; otherwise it succeeds and the store
\* gains exactly one record, with that id and completed = false.
C5_AddTodo ==
    [][(service = "docproject" /\ last'.op = "add_todo") =>
          LET todo == last'.args.todo
          IN IF todo.id = 0 \/ \E k \in DOMAIN todos : todos[k].id = todo.id
             THEN last'.status = 400 /\ todos' = todos
             ELSE /\ last'.status = 200
                  /\ \E k \in DOMAIN todos' \ DOMAIN todos :
                        /\ DOMAIN todos' = DOMAIN todos \cup {k}
                        /\ todos'[k].id = todo.id
                        /\ todos'[k].completed = FALSE
                  /\ \A k \in DOMAIN todos : todos'[k] = todos[k]
      ]_vars

\* C6: tasks-test, a list filtered by exact-match values returns exactly the
\* rows whose fields equal the values given, for every value a caller can pass.
C6_ExactFilter ==
    /\ (service = "todos" /\ last.op = "get_todos"
          /\ last.args.completed # None /\ last.args.search = None) =>
          last.body = {todo_table[k] : k \in
                         {k \in DOMAIN todo_table :
                            todo_table[k].completed = last.args.completed[1]}}
    /\ (service = "recipes" /\ last.op = "list_recipes") =>
          last.body = {recipe_table[k] : k \in
                         {k \in DOMAIN recipe_table :
                            /\ last.args.cuisine # None =>
                                  recipe_table[k].cuisine = last.args.cuisine[1]
                            /\ last.args.difficulty # None =>
                                  recipe_table[k].difficulty = last.args.difficulty[1]}}

\* C7: tasks-test, create_todo answers with the submitted task, completed as
\* submitted (false when omitted) and an id no other row has; a get of that id
\* issued next answers with the same record.
C7_CreateThenGet ==
    [][(service = "todos" /\ last'.op = "create_todo") =>
          LET todo == last'.args.todo
              r == last'.body
          IN /\ last'.status = 201
             /\ r.task = todo.task
             /\ r.completed = (IF todo.completed = Unset THEN FALSE ELSE todo.completed[1])
             /\ r.id \in Int
             /\ r.id \notin DOMAIN todo_table
             /\ \A k \in DOMAIN todo_table' : todo_table'[k].id = r.id => k = r.id
             /\ \A k \in DOMAIN todo_table : todo_table'[k] = todo_table[k]
             /\ get_todo_response(todo_table', r.id).status = 200
             /\ get_todo_response(todo_table', r.id).body = r
      ]_vars

\* a todo has been created without a completed flag beside an older row
\* that is completed
C7_Witness ==
    /\ service = "todos"
    /\ last.op = "create_todo"
    /\ last.args.todo.completed = Unset
    /\ last.body.completed = FALSE
    /\ \E k \in DOMAIN todo_table : k # last.body.id /\ todo_table[k].completed

C9_CompleteTodo ==
    [][(service = "docproject" /\ last'.op = "complete_todo") =>
          LET i == last'.args.item_id
          IN IF i \in DOMAIN todos
             THEN /\ last'.status = 200
                  /\ DOMAIN todos' = DOMAIN todos
                  /\ todos'[i].completed = TRUE
                  /\ \A f \in {"id", "title", "time_estimate"} : todos'[i][f] = todos[i][f]
                  /\ \A k \in DOMAIN todos \ {i} : todos'[k] = todos[k]
                  /\ last'.body = todos'[i]
                  /\ set_completed(todos', i) = todos'
             ELSE last'.status = 404 /\ todos' = todos
      ]_vars

\* a todo with a time estimate has been completed beside one that is not
C9_Witness ==
    /\ service = "docproject"
    /\ last.op = "complete_todo"
    /\ last.status = 200
    /\ last.body.completed
    /\ last.body.time_estimate = Some(30)
    /\ \E k \in DOMAIN todos : ~todos[k].completed

\* C10: docproject, of two concurrent add_todo requests with the same unused
\* id at most one succeeds, and concurrent delete_todo requests never end in an
\* unhandled error.
C10_ConcurrentAddDelete ==
    /\ \A t1, t2 \in Threads :
          (/\ t1 # t2
           /\ req[t1].op = "add_todo" /\ req[t2].op = "add_todo"
           /\ pc[t1] = "done" /\ pc[t2] = "done"
           /\ req[t1].todo.id = req[t2].todo.id
           /\ req[t1].todo.id \notin DOMAIN InitialTodos
           /\ ~\E t3 \in Threads : req[t3].op = "delete_todo"
                                    /\ req[t3].item_id = req[t1].todo.id)
          => ~(resp[t1].status = 200 /\ resp[t2].status = 200)
    /\ \A t \in Threads : pc[t] = "done" => resp[t].status # 500

=============================================================================
